---- MODULE Spec2Model ----
(***************************************************************************)
(* The diagnosis workflow of src/App.tsx: the four React state cells of    *)
(* App (image, isAnalyzing, result, error), the FileReader started by      *)
(* handleFileChange, the generateContent calls awaited by analyzeImage,    *)
(* and reset.  Every handler runs to completion on the event loop and its  *)
(* setState calls are applied together, so each handler, and each          *)
(* continuation after the await, is one step.  App is rendered after each  *)
(* step; a render that throws is caught by no error boundary, so React     *)
(* unmounts App: its buttons are gone and later setState calls do nothing, *)
(* while readers and calls already started still run their callbacks.      *)
(***************************************************************************)
EXTENDS Integers, Sequences, FiniteSets, TLC

\* Bound on the number of files the user selects in one run.
MaxSelect == 2

\* ---------------------------------------------------------------- values

\* A nullable cell holds Null or Some(x).
Null == <<>>
Some(x) == <<x>>

\* The message of setError, App.tsx line 120.
FIXED_MESSAGE == "Failed to analyze image. Please try again with a clearer photo."

\* The files the user can pick.
Files == {"leafA", "leafB"}

\* FileReader.readAsDataURL: "data:<mime>;base64,<payload>", kept as the two
\* parts the comma separates.
readAsDataURL(file) == <<"data:image/jpeg;base64", file>>

\* base64Image.split(',')[1], the payload sent as inlineData.data.
inlineData(base64Image) == base64Image[2]

\* The seven properties of AnalysisResult and of the responseSchema.
Fields ==
  {"diseaseName", "scientificName", "confidence", "symptoms", "causes",
   "treatment", "prevention"}

\* ------------------------------------------------- response text and JSON

\* response.text is a sequence of tokens: an opening brace, name/value
\* pairs, a closing brace.  The empty sequence is the empty (or undefined)
\* text.
LBrace == [t |-> "{", k |-> "", v |-> <<>>]
RBrace == [t |-> "}", k |-> "", v |-> <<>>]
Pair(key, value) == [t |-> "pair", k |-> key, v |-> <<value>>]

\* Whether JSON.parse(text) throws a SyntaxError.
JSONParseThrows(text) ==
  ~ ( /\ Len(text) >= 2
      /\ text[1].t = "{"
      /\ text[Len(text)].t = "}"
      /\ \A i \in 2..(Len(text) - 1) : text[i].t = "pair" )

\* JSON.parse(text) for a text that parses: the object of its pairs, a
\* repeated name keeping its last value.
JSONParse(text) ==
  LET idx == 2..(Len(text) - 1)
      keys == {text[i].k : i \in idx}
      lastOf(key) == CHOOSE i \in idx :
                       /\ text[i].k = key
                       /\ \A j \in idx : text[j].k = key => j <= i
  IN  [key \in keys |-> text[lastOf(key)].v[1]]

\* A faulty fallback: response.text handed to JSON.parse as it is.
textWithoutFallback(text) == text

\* response.text || "{}"
textOrEmptyObject(text) == IF text = <<>> THEN <<LBrace, RBrace>> ELSE text

DiseaseNames == {"Healthy", "Early Blight"}
SymptomLists == {<<>>, <<"brown spots", "yellow halo">>}

\* The text of a response carrying all seven fields.
FullText(d, s) ==
  << LBrace,
     Pair("diseaseName", d),
     Pair("scientificName", IF d = "Healthy" THEN "" ELSE "Alternaria solani"),
     Pair("confidence", "99%"),
     Pair("symptoms", s),
     Pair("causes", <<>>),
     Pair("treatment", "No action needed."),
     Pair("prevention", "Maintain watering schedule."),
     RBrace >>

FullTexts == {FullText(d, s) : d \in DiseaseNames, s \in SymptomLists}

\* Texts that parse to an object lacking some of the seven fields.
PartialTexts ==
  { <<LBrace, RBrace>>,
    <<LBrace, Pair("diseaseName", "Early Blight"), RBrace>>,
    <<LBrace, Pair("diseaseName", "Healthy"), Pair("symptoms", <<>>),
      Pair("causes", <<>>), RBrace>> }

\* Non-empty texts that are not JSON: a truncated object, plain prose.
MalformedTexts ==
  { <<LBrace, Pair("diseaseName", "Early Blight")>>,
    <<Pair("diseaseName", "Healthy")>> }

\* Every response.text a fulfilled call may carry.
Texts == {<<>>} \cup FullTexts \cup PartialTexts \cup MalformedTexts

\* ------------------------------------------------------------------ state

VARIABLES
  image,          \* useState<string | null>(null)
  isAnalyzing,    \* useState(false)
  result,         \* useState<AnalysisResult | null>(null)
  error,          \* useState<string | null>(null)
  apiKey,         \* process.env.GEMINI_API_KEY, fixed by the build
  readers,        \* FileReaders that have not fired onloadend yet
  inflight,       \* generateContent calls that have not settled yet
  selections,     \* number of files selected so far
  submissions,    \* number of analyzeImage invocations so far
  readSubmissions,\* ... of which with a string (readable image) argument
  outboundCalls,  \* number of generateContent invocations so far
  resetCalls,     \* calls in flight at the latest reset, no submission since
  overlap,        \* calls whose flight overlapped another analyzeImage
  last,           \* the latest step taken
  mounted         \* whether App is still mounted (no render has thrown)

vars ==
  << image, isAnalyzing, result, error, apiKey, readers, inflight,
     selections, submissions, readSubmissions, outboundCalls, resetCalls,
     overlap, last, mounted >>

\* The part of the state the handlers of App read and write.
State ==
  [ image |-> image, isAnalyzing |-> isAnalyzing, result |-> result,
    error |-> error, inflight |-> inflight, outboundCalls |-> outboundCalls ]

\* The result card, lines 278-373, for a result object r:
\* result.diseaseName.toLowerCase() (lines 291, 295, 305),
\* result.symptoms.map (line 321) and result.causes.map (line 332) throw a
\* TypeError on a missing property; {result.confidence},
\* {result.scientificName} and the two Markdown children render nothing.
resultCardThrows(r) ==
  \E f \in {"diseaseName", "symptoms", "causes"} : f \notin DOMAIN r

\* Whether rendering App in state s throws: the card is rendered when
\* result is truthy (line 278), and every parsed object is.
AppRenderThrows(s) == s.result /= Null /\ resultCardThrows(s.result[1])

\* The handlers' writes, applied together, and the render that follows.
\* The call bookkeeping is outside React and always takes effect.
Commit(s) ==
  /\ inflight' = s.inflight
  /\ outboundCalls' = s.outboundCalls
  /\ IF mounted
       THEN /\ image' = s.image
            /\ isAnalyzing' = s.isAnalyzing
            /\ result' = s.result
            /\ error' = s.error
            /\ mounted' = ~AppRenderThrows(s)
       ELSE UNCHANGED << image, isAnalyzing, result, error, mounted >>

Step(op, id, text) == [op |-> op, id |-> id, text |-> text]

\* ------------------------------------------------------------ the handlers

\* A faulty analyzeImage entry that forgets setResult(null).
analyzeImageEnterKeepsResult(s) ==
  [s EXCEPT !.isAnalyzing = TRUE, !.error = Null]

\* analyzeImage, lines 77-79: the three writes made before the try block.
analyzeImageEnter(s) ==
  [s EXCEPT !.isAnalyzing = TRUE, !.error = Null, !.result = Null]

\* analyzeImage, lines 118-120: the catch block.
analyzeImageCatch(s) == [s EXCEPT !.error = Some(FIXED_MESSAGE)]

\* A faulty analyzeImage without the finally block.
analyzeImageFinallyMissing(s) == s

\* analyzeImage, lines 121-123: the finally block.
analyzeImageFinally(s) == [s EXCEPT !.isAnalyzing = FALSE]

\* ai.models.generateContent(...), line 83: one outbound call, left pending.
generateContent(s, id, data) ==
  [s EXCEPT !.inflight = @ \cup {[id |-> id, data |-> data]},
            !.outboundCalls = @ + 1]

\* analyzeImage, lines 81-114, up to the await.  new GoogleGenAI throws in
\* a browser when no API key is set (line 82), and null.split throws when
\* the reader produced no string (line 90); either way the catch and
\* finally blocks run at once and no call is made.
analyzeImageTry(s, key, base64Image, id) ==
  IF key = Null \/ base64Image = Null
    THEN analyzeImageFinally(analyzeImageCatch(s))
    ELSE generateContent(s, id, inlineData(base64Image[1]))

\* analyzeImage(base64Image) up to its suspension at the await.
analyzeImage(s, key, base64Image, id) ==
  analyzeImageTry(analyzeImageEnter(s), key, base64Image, id)

\* A faulty continuation without the finally block: the spinner stays.
analyzeImageFulfilledNoFinally(s, text) ==
  LET body == textOrEmptyObject(text)
  IN  IF JSONParseThrows(body)
        THEN analyzeImageCatch(s)
        ELSE [s EXCEPT !.result = Some(JSONParse(body))]

\* analyzeImage resumed with a response, lines 116-117 and 118-123:
\* JSON.parse(response.text || "{}") either throws into the catch block or
\* gives the value of setResult.
analyzeImageFulfilled(s, text) ==
  LET body == textOrEmptyObject(text)
  IN  IF JSONParseThrows(body)
        THEN analyzeImageFinally(analyzeImageCatch(s))
        ELSE analyzeImageFinally([s EXCEPT !.result = Some(JSONParse(body))])

\* A faulty catch path that retries the call on its own.
analyzeImageRejectedRetries(s) ==
  generateContent(analyzeImageFinally(analyzeImageCatch(s)), 0, "retry")

\* analyzeImage resumed with a rejection, lines 118-123.
analyzeImageRejected(s) == analyzeImageFinally(analyzeImageCatch(s))

\* reader.onloadend, lines 130-134.
onloadend(s, key, base64, id) ==
  analyzeImage([s EXCEPT !.image = base64], key, base64, id)

\* A faulty reset that flips the spinner instead of leaving it alone.
resetTogglesAnalyzing(s) ==
  [s EXCEPT !.image = Null, !.result = Null, !.error = Null,
            !.isAnalyzing = ~@]

\* reset, lines 139-143.
reset(s) == [s EXCEPT !.image = Null, !.result = Null, !.error = Null]

\* The promise of call c has settled.
settled(s, c) == [s EXCEPT !.inflight = @ \ {c}]

Ids(calls) == {c.id : c \in calls}

\* ------------------------------------------------------------- the steps

Init ==
  /\ image = Null
  /\ isAnalyzing = FALSE
  /\ result = Null
  /\ error = Null
  /\ apiKey \in {Null, Some("key")}
  /\ readers = {}
  /\ inflight = {}
  /\ selections = 0
  /\ submissions = 0
  /\ readSubmissions = 0
  /\ outboundCalls = 0
  /\ resetCalls = {}
  /\ overlap = {}
  /\ last = Step("init", 0, <<>>)
  /\ mounted = TRUE

\* handleFileChange, lines 126-137: the file input exists only while no
\* image is shown (line 171), and a change without a file does nothing
\* (line 128).  The read is started and finishes later.
SelectFile(file) ==
  /\ mounted
  /\ image = Null
  /\ selections < MaxSelect
  /\ selections' = selections + 1
  /\ readers' = readers \cup {[id |-> selections + 1, file |-> file]}
  /\ last' = Step("select", 0, <<>>)
  /\ UNCHANGED << image, isAnalyzing, result, error, apiKey, inflight,
                  submissions, readSubmissions, outboundCalls, resetCalls,
                  overlap, mounted >>

\* reader.onloadend fires, after a read that succeeded (reader.result is the
\* data URL) or failed (reader.result is null).
ReaderLoadEnd(r, readOk) ==
  LET base64 == IF readOk THEN Some(readAsDataURL(r.file)) ELSE Null
      id == submissions + 1
  IN  /\ r \in readers
      /\ readers' = readers \ {r}
      /\ Commit(onloadend(State, apiKey, base64, id))
      /\ submissions' = id
      /\ readSubmissions' = readSubmissions + (IF readOk THEN 1 ELSE 0)
      /\ resetCalls' = {}
      /\ overlap' = IF inflight = {} THEN overlap
                    ELSE overlap \cup Ids(inflight) \cup {id}
      /\ last' = Step("submit", id, <<>>)
      /\ UNCHANGED << apiKey, selections >>

\* A pending call is fulfilled with a response whose text is `text`.
CallFulfilled(c, text) ==
  /\ c \in inflight
  /\ Commit(analyzeImageFulfilled(settled(State, c), text))
  /\ last' = Step("fulfilled", c.id, text)
  /\ UNCHANGED << apiKey, readers, selections, submissions, readSubmissions,
                  resetCalls, overlap >>

\* A pending call is rejected (transport or service failure).
CallRejected(c) ==
  /\ c \in inflight
  /\ Commit(analyzeImageRejected(settled(State, c)))
  /\ last' = Step("rejected", c.id, <<>>)
  /\ UNCHANGED << apiKey, readers, selections, submissions, readSubmissions,
                  resetCalls, overlap >>

\* The user presses Reset, Try Again or New Analysis (lines 162, 239, 366).
Reset ==
  /\ mounted
  /\ Commit(reset(State))
  /\ resetCalls' = Ids(inflight)
  /\ last' = Step(IF last.op \in {"reset", "reset again"}
                    THEN "reset again" ELSE "reset", 0, <<>>)
  /\ UNCHANGED << apiKey, readers, selections, submissions, readSubmissions,
                  overlap >>

Next ==
  \/ \E file \in Files : SelectFile(file)
  \/ \E r \in readers, readOk \in BOOLEAN : ReaderLoadEnd(r, readOk)
  \/ \E c \in inflight, text \in Texts : CallFulfilled(c, text)
  \/ \E c \in inflight : CallRejected(c)
  \/ Reset

Spec == Init /\ [][Next]_vars

\* Some pending call settles.
CallSettles ==
  \E c \in inflight :
    CallRejected(c) \/ \E text \in Texts : CallFulfilled(c, text)

\* The behaviours in which the Analysis Service answers: while a call is
\* pending, one of the pending calls eventually settles.
FairSpec == Spec /\ WF_vars(CallSettles)

\* ------------------------------------------------------------- the claims

Resolutions == {"fulfilled", "rejected"}
Resets == {"reset", "reset again"}

\* The object JSON.parse("{}") gives: no property at all.
EmptyObject == [f \in {} |-> ""]

\* C1: in every reachable state of the mounted App, result and error are
\* never both non-null.
C1_NeverResultAndError == mounted => ~ (result /= Null /\ error /= Null)

\* C2: the resolution (success or failure) of a call that a later
\* submission has superseded changes none of result, error and isAnalyzing
\* (App staying mounted).
C2_SupersededResolutionIgnored ==
  [][ (mounted' /\ last' /= last /\ last'.op \in Resolutions
         /\ last'.id < submissions)
        => (result' = result /\ error' = error /\ isAnalyzing' = isAnalyzing)
    ]_vars

\* C3: right after reset() the controller is Idle: image, result and error
\* are null and isAnalyzing is false.
C3_ResetLeavesIdle ==
  last.op \in Resets
    => (image = Null /\ result = Null /\ error = Null /\ ~isAnalyzing)

\* C4: when a call that was in flight at a reset() resolves (no submission
\* having been made since), result and error are still null and the
\* controller is still Idle (App staying mounted).
C4_ResolutionAfterResetIgnored ==
  (mounted /\ last.op \in Resolutions /\ last.id \in resetCalls)
    => (result = Null /\ error = Null /\ image = Null /\ ~isAnalyzing)

\* C5: whenever isAnalyzing is true, result and error are both null.
C5_AnalyzingHasNoResultNoError ==
  isAnalyzing => (result = Null /\ error = Null)

\* C5 witness: the latest submission entered Analyzing while an earlier call
\* was still in flight.
C5_Witness ==
  /\ isAnalyzing
  /\ last.op = "submit"
  /\ Cardinality(inflight) >= 2

\* C6: right after a call is rejected (App being mounted), isAnalyzing is
\* false, error is the fixed message and result is null.
C6_RejectedEndsFailed ==
  (mounted /\ last.op = "rejected")
    => (~isAnalyzing /\ error = Some(FIXED_MESSAGE) /\ result = Null)

\* C7 as stated: after a successful reply whose body fails to parse (the
\* call not overlapping any other submission), error is null and result is
\* the object without fields.
C7_UnparsableBodyNotFailed ==
  (mounted /\ last.op = "fulfilled" /\ last.id \notin overlap
     /\ JSONParseThrows(last.text))
    => (error = Null /\ result = Some(EmptyObject))

\* C7, amended: while App is mounted, a successful reply with an empty or
\* absent body leaves
\* error as it was and makes result the object without fields; a successful
\* reply with a non-empty body that fails to parse sets error to the fixed
\* message and leaves result as it was.  Either way isAnalyzing ends false.
C7_EmptyBodyFallsBack ==
  [][ (mounted /\ last' /= last /\ last'.op = "fulfilled"
         /\ JSONParseThrows(last'.text))
        => /\ ~isAnalyzing'
           /\ IF last'.text = <<>>
                THEN error' = error /\ result' = Some(EmptyObject)
                ELSE error' = Some(FIXED_MESSAGE) /\ result' = result
    ]_vars

\* C7 witness: a call was fulfilled with an empty body and the controller
\* shows the object without fields and no error.
C7_Witness ==
  /\ last.op = "fulfilled"
  /\ last.text = <<>>
  /\ result = Some(EmptyObject)
  /\ error = Null
  /\ ~isAnalyzing

\* C8: while App is mounted, after a call that overlapped no other
\* submission is fulfilled with a
\* response carrying all seven fields, isAnalyzing is false, error is null
\* and result has exactly the seven fields, each with the response's value.
C8_SingleFullResponseReady ==
  (mounted /\ last.op = "fulfilled" /\ last.id \notin overlap
     /\ last.text \in FullTexts)
    => /\ ~isAnalyzing
       /\ error = Null
       /\ result /= Null
       /\ DOMAIN result[1] = Fields
       /\ \A f \in Fields :
            \E i \in 1..Len(last.text) :
              /\ last.text[i].t = "pair"
              /\ last.text[i].k = f
              /\ last.text[i].v[1] = result[1][f]

\* C8 witness: the "Healthy" response of the spec's scenario was delivered
\* to a single call and is shown next to its image.
C8_Witness ==
  /\ mounted
  /\ last.op = "fulfilled"
  /\ last.id \notin overlap
  /\ last.text = FullText("Healthy", <<>>)
  /\ result /= Null
  /\ image /= Null

\* C9 as stated: the number of outbound calls always equals the number of
\* submissions.
C9_CallsEqualSubmissions == outboundCalls = submissions

\* C9, amended: a submission makes one outbound call when its image was
\* read as a string and an API key is configured, and none otherwise; no
\* call is made at any other time.
C9_OneCallPerReadableSubmission ==
  /\ outboundCalls <= submissions
  /\ outboundCalls = (IF apiKey = Null THEN 0 ELSE readSubmissions)

\* C9 witness: a call has just been rejected, another submission had an
\* unreadable image, and no call beyond the readable submissions was made.
C9_Witness ==
  /\ last.op = "rejected"
  /\ outboundCalls >= 1
  /\ readSubmissions < submissions
  /\ inflight = {}

\* C10: a reset() that directly follows a reset() leaves the state as the
\* first one left it.
C10_ResetIdempotent ==
  [][ (last.op \in Resets /\ last'.op = "reset again") => State' = State ]_vars

\* C10 witness: reset() was called twice in a row while a call was in
\* flight.
C10_Witness ==
  /\ last.op = "reset again"
  /\ isAnalyzing
  /\ inflight /= {}

\* C11: after a call that overlapped no other submission is fulfilled with a
\* body that parses to an object lacking some of the seven fields (the
\* empty-object fallback included) and that object is the result shown, the
\* controller is Ready (isAnalyzing false, error null) and rendering App
\* does not throw.
C11_MissingFieldsRenderEmpty ==
  LET body == textOrEmptyObject(last.text)
  IN  ( /\ last.op = "fulfilled"
        /\ last.id \notin overlap
        /\ ~JSONParseThrows(body)
        /\ DOMAIN JSONParse(body) /= Fields
        /\ result = Some(JSONParse(body)) )
        => (~isAnalyzing /\ error = Null /\ ~AppRenderThrows(State))

\* C12: provided pending calls eventually settle, every state with
\* isAnalyzing true is followed by one with isAnalyzing false, and
\* isAnalyzing is false whenever no call is in flight.
C12_LoadingFlagNeverStuck ==
  /\ isAnalyzing ~> ~isAnalyzing
  /\ [](inflight = {} => ~isAnalyzing)

\* C12 witness: a call that was in flight at a reset has settled, no call is
\* left in flight and the flag is down.
C12_Witness ==
  /\ mounted
  /\ last.op \in Resolutions
  /\ last.id \in resetCalls
  /\ inflight = {}
  /\ ~isAnalyzing

====
